---- MODULE Spec2Model ----
(***************************************************************************)
(* Device / link-budget model of gym_d2d (src/gym_d2d/envs/device.py).     *)
(*                                                                         *)
(* Python objects live in a heap: a dict is a heap cell holding a function *)
(* from keys (strings) to numbers, and a reference is the cell's address.  *)
(* Aliasing (two references to one dict) is therefore visible, and an      *)
(* in-place write through one reference is seen through the other.         *)
(*                                                                         *)
(* Numbers are fixed-point: one unit of the model is one millionth of the  *)
(* Python float (46.0 dBm is 46 * U, 2.1 GHz is 21 * T).  A distance is a   *)
(* double given as <<m, k>>: the double k units in the last place above    *)
(* the double nearest to m millionths, so that two adjacent doubles are    *)
(* two distinct arguments.  math.log10 is a table over the arguments the   *)
(* model draws, rounded to the millionth, and raises ValueError for a      *)
(* non-positive argument as math.log10 does.                               *)
(***************************************************************************)
EXTENDS Integers, Sequences, FiniteSets, TLC

VARIABLES heap, devices, ret

vars == <<heap, devices, ret>>

\* One tenth and one whole, in millionths.
T == 100 * 1000
U == 10 * T

(***************************************************************************)
(* Bounds of the model.                                                    *)
(***************************************************************************)
MaxDevices == 2

\* Raw identifiers the caller passes as id_, per class constructed.
BaseStationIds == {"bs0"}
UserEquipmentIds == {"ue0"}
DeviceIds == {"d0"}

\* The double nearest to m millionths.
Dbl(m) == <<m, 0>>

\* x > 0 and x < y on doubles <<m, k>>.
IsPositive(x) == x[1] > 0 \/ (x[1] = 0 /\ x[2] > 0)
Less(x, y) == x[1] < y[1] \/ (x[1] = y[1] /\ x[2] < y[2])

\* Distances (metres) and transmit gains (dB) the caller passes to
\* free_space_path_loss_dB: -5.0, 0.0, 1.0, 10.0, 1000.0 and the double that
\* follows 1000.0 (1000.0000000000001).
Distances == {Dbl(-5 * U), Dbl(0), Dbl(U), Dbl(10 * U), Dbl(1000 * U), <<1000 * U, 1>>}
TxGains == {0, 175 * T}

(***************************************************************************)
(* Outcomes of an evaluation: a returned value, or a raised exception.     *)
(***************************************************************************)
\* (key is the missing key of a KeyError, "" otherwise.)
Ok(v) == [outcome |-> "ok", value |-> v, key |-> ""]
KeyError(k) == [outcome |-> "KeyError", value |-> 0, key |-> k]
ValueError == [outcome |-> "ValueError", value |-> 0, key |-> ""]

IsOk(r) == r.outcome = "ok"

(***************************************************************************)
(* Python dicts and the heap.                                              *)
(***************************************************************************)
EmptyDict == [k \in {} |-> 0]

\* d[k]
GetItem(d, k) == IF k \in DOMAIN d THEN Ok(d[k]) ELSE KeyError(k)

\* d[k] = v, on the dict's value
SetItem(d, k, v) == [x \in DOMAIN d \cup {k} |-> IF x = k THEN v ELSE d[x]]

\* The address a newly created object gets: the lowest free one.
NewAddr(h) == CHOOSE a \in 1..(Cardinality(DOMAIN h) + 1) :
                 /\ a \notin DOMAIN h
                 /\ \A b \in 1..(Cardinality(DOMAIN h) + 1) : b \notin DOMAIN h => a <= b

\* The heap after creating an object holding d at NewAddr(h).
Alloc(h, d) == h @@ (NewAddr(h) :> d)

\* utils.merge_dicts(d1, d2): a new mapping, the key-union of d1 and d2 with
\* d2's value wherever d2 defines the key; neither argument is written.
merge_dicts(d1, d2) ==
    [k \in DOMAIN d1 \cup DOMAIN d2 |-> IF k \in DOMAIN d2 THEN d2[k] ELSE d1[k]]

(***************************************************************************)
(* The module-wide default tables (device.py lines 13-43).                 *)
(***************************************************************************)
DEFAULT_DEVICE_CONFIG ==
    ("num_PRB" :> 1 * U) @@
    ("carrier_freq_GHz" :> 21 * T) @@
    ("subcarrier_quantity" :> 12 * U) @@
    ("subcarrier_spacing_kHz" :> 30 * U)

DEFAULT_BASE_STATION_CONFIG ==
    merge_dicts(DEFAULT_DEVICE_CONFIG,
        ("max_tx_power_dBm" :> 46 * U) @@
        ("antenna_height_m" :> 23 * U) @@
        ("tx_antenna_gain_dBi" :> 175 * T) @@
        ("rx_antenna_gain_dBi" :> 175 * T) @@
        ("thermal_noise_dBm" :> -1184 * T) @@
        ("noise_figure_dB" :> 2 * U) @@
        ("sinr_dB" :> -7 * U) @@
        ("ix_margin_dB" :> 2 * U) @@
        ("cable_loss_dB" :> 2 * U) @@
        ("masthead_amplifier_gain_dB" :> 2 * U))

DEFAULT_UE_CONFIG ==
    merge_dicts(DEFAULT_DEVICE_CONFIG,
        ("max_tx_power_dBm" :> 23 * U) @@
        ("antenna_height_m" :> 15 * T) @@
        ("tx_antenna_gain_dBi" :> 0) @@
        ("rx_antenna_gain_dBi" :> 0) @@
        ("thermal_noise_dBm" :> -1045 * T) @@
        ("noise_figure_dB" :> 7 * U) @@
        ("sinr_dB" :> -10 * U) @@
        ("ix_margin_dB" :> 3 * U) @@
        ("control_channel_overhead_dB" :> 1 * U) @@
        ("body_loss_dB" :> 3 * U))

\* Where the three module-level tables live.
AddrDeviceDefaults == 1
AddrBaseStationDefaults == 2
AddrUEDefaults == 3
DefaultAddrs == {AddrDeviceDefaults, AddrBaseStationDefaults, AddrUEDefaults}

(***************************************************************************)
(* The caller's mappings.  They are created by the caller before any       *)
(* construction and passed by reference as the config argument.            *)
(***************************************************************************)
\* Mappings the caller passes as overrides to BaseStation / UserEquipment.
OverrideMappings == <<
    EmptyDict,
    ("max_tx_power_dBm" :> 40 * U),
    ("carrier_freq_GHz" :> 5 * U) @@ ("noise_figure_dB" :> 5 * U),
    ("rx_antenna_gain_dBi" :> 20 * U),
    ("fspl_constant_dB" :> 99 * U) @@ ("extra_key" :> 1 * U),
    ("carrier_freq_GHz" :> 0) >>

\* Mappings the caller passes only to Device(id_, config) itself: they lack
\* fields the accessors read.
RawConfigMappings == <<
    ("carrier_freq_GHz" :> 21 * T),
    ("carrier_freq_GHz" :> 21 * T) @@ ("rx_antenna_gain_dBi" :> 0) @@
        ("noise_figure_dB" :> 7 * U),
    ("max_tx_power_dBm" :> 23 * U) >>

CallerMappings == OverrideMappings \o RawConfigMappings

CallerAddrs == {Cardinality(DefaultAddrs) + i : i \in DOMAIN CallerMappings}

\* What the caller's mapping at address a held when the caller created it.
CallerMappingAt(a) == CallerMappings[a - Cardinality(DefaultAddrs)]

\* None, as a reference.
None == 0

\* The config argument of BaseStation(id_, config) / UserEquipment(id_, config).
Overrides == {None} \cup {Cardinality(DefaultAddrs) + i : i \in DOMAIN OverrideMappings}

\* The config argument of Device(id_, config).
RawConfigs == CallerAddrs \ Overrides

(***************************************************************************)
(* math.log10 on the doubles the model draws (result in millionths,        *)
(* rounded).  math.log10 returns exactly 3.0 both for 1000.0 and for the   *)
(* double that follows it.  log10e(x, e) is log10(x * 10^e) for a          *)
(* configuration value x in millionths.                                    *)
(***************************************************************************)
Log10Table ==
    (Dbl(U) :> 0) @@
    (Dbl(21 * T) :> 322219) @@
    (Dbl(5 * U) :> 698970) @@
    (Dbl(10 * U) :> 1 * U) @@
    (Dbl(1000 * U) :> 3 * U) @@
    (<<1000 * U, 1>> :> 3 * U)

log10(x) == IF IsPositive(x) THEN Ok(Log10Table[x]) ELSE ValueError

log10e(x, e) ==
    LET l == log10(Dbl(x))
    IN  IF ~IsOk(l) THEN l ELSE Ok(l.value + e * U)

\* log10((4 * pi) / 299792458), in millionths.
LOG10_4PI_OVER_C == -7377611

\* def calc_fspl_constant_dB(carrier_freq_GHz):
\*     return 20 * log10(carrier_freq_GHz * 1e9) + 20 * log10((4 * pi) / 299792458)
calc_fspl_constant_dB(carrier_freq_GHz) ==
    LET l == log10e(carrier_freq_GHz, 9)
    IN  IF ~IsOk(l) THEN l ELSE Ok(20 * l.value + 20 * LOG10_4PI_OVER_C)

(***************************************************************************)
(* class Device: the typed accessors.  self is the object's fields         *)
(* [id, class, config]; config is a reference into the heap h.             *)
(***************************************************************************)
\* id.Id(id_): wraps the raw identifier; equal iff the raw values are equal.
Id(id_) == [raw |-> id_]

max_tx_power_dBm(h, self) == GetItem(h[self.config], "max_tx_power_dBm")

carrier_freq_GHz(h, self) == GetItem(h[self.config], "carrier_freq_GHz")

antenna_height_m(h, self) == GetItem(h[self.config], "antenna_height_m")

tx_antenna_gain_dBi(h, self) == GetItem(h[self.config], "tx_antenna_gain_dBi")

rx_antenna_gain_dBi(h, self) == GetItem(h[self.config], "rx_antenna_gain_dBi")

\* Variant: self.config.get('noise_figure_dB', 0.0)
noise_figure_dB_Defaulted(h, self) ==
    IF "noise_figure_dB" \in DOMAIN h[self.config]
    THEN Ok(h[self.config]["noise_figure_dB"]) ELSE Ok(0)

noise_figure_dB(h, self) == GetItem(h[self.config], "noise_figure_dB")

thermal_noise_dBm(h, self) == GetItem(h[self.config], "thermal_noise_dBm")

\* Variant: return self.noise_figure_dB - self.thermal_noise_dBm
rx_noise_floor_dBm_Minus(h, self) ==
    LET n == noise_figure_dB(h, self)
        t == thermal_noise_dBm(h, self)
    IN  IF ~IsOk(n) THEN n
        ELSE IF ~IsOk(t) THEN t
        ELSE Ok(n.value - t.value)

\* return self.noise_figure_dB + self.thermal_noise_dBm
rx_noise_floor_dBm(h, self) ==
    LET n == noise_figure_dB(h, self)
        t == thermal_noise_dBm(h, self)
    IN  IF ~IsOk(n) THEN n
        ELSE IF ~IsOk(t) THEN t
        ELSE Ok(n.value + t.value)

sinr_dB(h, self) == GetItem(h[self.config], "sinr_dB")

ix_margin_dB(h, self) == GetItem(h[self.config], "ix_margin_dB")

fspl_constant_dB(h, self) == GetItem(h[self.config], "fspl_constant_dB")

\* class BaseStation
cable_loss_dB(h, self) == GetItem(h[self.config], "cable_loss_dB")

masthead_amplifier_gain_dB(h, self) ==
    GetItem(h[self.config], "masthead_amplifier_gain_dB")

\* class UserEquipment
control_channel_overhead_dB(h, self) ==
    GetItem(h[self.config], "control_channel_overhead_dB")

body_loss_dB(h, self) == GetItem(h[self.config], "body_loss_dB")

\* Variant: the distance is clamped to 1 m, log10(max(d, 1.0)).
free_space_path_loss_dB_Clamped(h, self, d, tx_gain) ==
    LET l == log10(IF Less(d, Dbl(U)) THEN Dbl(U) ELSE d)
        c == fspl_constant_dB(h, self)
        r == rx_antenna_gain_dBi(h, self)
    IN  IF ~IsOk(l) THEN l
        ELSE IF ~IsOk(c) THEN c
        ELSE IF ~IsOk(r) THEN r
        ELSE Ok(20 * l.value + c.value - tx_gain - r.value)

\* Variant: the receive gain is added, ... - tx_gain + self.rx_antenna_gain_dBi
free_space_path_loss_dB_PlusRx(h, self, d, tx_gain) ==
    LET l == log10(d)
        c == fspl_constant_dB(h, self)
        r == rx_antenna_gain_dBi(h, self)
    IN  IF ~IsOk(l) THEN l
        ELSE IF ~IsOk(c) THEN c
        ELSE IF ~IsOk(r) THEN r
        ELSE Ok(20 * l.value + c.value - tx_gain + r.value)

\* return 20 * log10(d) + self.fspl_constant_dB - tx_gain - self.rx_antenna_gain_dBi
\* (operands are evaluated left to right)
free_space_path_loss_dB(h, self, d, tx_gain) ==
    LET l == log10(d)
        c == fspl_constant_dB(h, self)
        r == rx_antenna_gain_dBi(h, self)
    IN  IF ~IsOk(l) THEN l
        ELSE IF ~IsOk(c) THEN c
        ELSE IF ~IsOk(r) THEN r
        ELSE Ok(20 * l.value + c.value - tx_gain - r.value)

\* The properties each class defines, and the property p of self.
DeviceProperties ==
    {"max_tx_power_dBm", "carrier_freq_GHz", "antenna_height_m",
     "tx_antenna_gain_dBi", "rx_antenna_gain_dBi", "noise_figure_dB",
     "thermal_noise_dBm", "rx_noise_floor_dBm", "sinr_dB", "ix_margin_dB",
     "fspl_constant_dB"}

PropertiesOf(class) ==
    CASE class = "BaseStation" ->
            DeviceProperties \cup {"cable_loss_dB", "masthead_amplifier_gain_dB"}
      [] class = "UserEquipment" ->
            DeviceProperties \cup {"control_channel_overhead_dB", "body_loss_dB"}
      [] OTHER -> DeviceProperties

Property(h, self, p) ==
    CASE p = "max_tx_power_dBm" -> max_tx_power_dBm(h, self)
      [] p = "carrier_freq_GHz" -> carrier_freq_GHz(h, self)
      [] p = "antenna_height_m" -> antenna_height_m(h, self)
      [] p = "tx_antenna_gain_dBi" -> tx_antenna_gain_dBi(h, self)
      [] p = "rx_antenna_gain_dBi" -> rx_antenna_gain_dBi(h, self)
      [] p = "noise_figure_dB" -> noise_figure_dB(h, self)
      [] p = "thermal_noise_dBm" -> thermal_noise_dBm(h, self)
      [] p = "rx_noise_floor_dBm" -> rx_noise_floor_dBm(h, self)
      [] p = "sinr_dB" -> sinr_dB(h, self)
      [] p = "ix_margin_dB" -> ix_margin_dB(h, self)
      [] p = "fspl_constant_dB" -> fspl_constant_dB(h, self)
      [] p = "cable_loss_dB" -> cable_loss_dB(h, self)
      [] p = "masthead_amplifier_gain_dB" -> masthead_amplifier_gain_dB(h, self)
      [] p = "control_channel_overhead_dB" -> control_channel_overhead_dB(h, self)
      [] p = "body_loss_dB" -> body_loss_dB(h, self)

(***************************************************************************)
(* Construction.  Each __init__ takes the heap before the call and yields  *)
(* [outcome, key, heap, self]: the exception raised (or "ok"), the heap    *)
(* after the call and the constructed object.                              *)
(***************************************************************************)
\* Variant: self.config.setdefault('fspl_constant_dB', ...), which keeps a
\* value the config already holds.
Device__init__SetDefault(h, class, id_, config) ==
    LET self == [id |-> Id(id_), class |-> class, config |-> config]
        f == carrier_freq_GHz(h, self)
        c == IF IsOk(f) THEN calc_fspl_constant_dB(f.value) ELSE f
    IN  IF IsOk(c)
        THEN [outcome |-> "ok", key |-> "", self |-> self,
              heap |-> IF "fspl_constant_dB" \in DOMAIN h[config] THEN h
                       ELSE [h EXCEPT ![config] = SetItem(@, "fspl_constant_dB", c.value)]]
        ELSE [outcome |-> c.outcome, key |-> c.key, self |-> self, heap |-> h]

\* Variant: the constant is derived from the default carrier frequency,
\* calc_fspl_constant_dB(DEFAULT_DEVICE_CONFIG['carrier_freq_GHz']).
Device__init__DefaultCarrier(h, class, id_, config) ==
    LET self == [id |-> Id(id_), class |-> class, config |-> config]
        f == GetItem(h[AddrDeviceDefaults], "carrier_freq_GHz")
        c == IF IsOk(f) THEN calc_fspl_constant_dB(f.value) ELSE f
    IN  IF IsOk(c)
        THEN [outcome |-> "ok", key |-> "", self |-> self,
              heap |-> [h EXCEPT ![config] = SetItem(@, "fspl_constant_dB", c.value)]]
        ELSE [outcome |-> c.outcome, key |-> c.key, self |-> self, heap |-> h]

\* def __init__(self, id_, config):
\*     self.id = Id(id_)
\*     self.config: dict = config
\*     self.config['fspl_constant_dB'] = calc_fspl_constant_dB(self.carrier_freq_GHz)
Device__init__(h, class, id_, config) ==
    LET self == [id |-> Id(id_), class |-> class, config |-> config]
        f == carrier_freq_GHz(h, self)
        c == IF IsOk(f) THEN calc_fspl_constant_dB(f.value) ELSE f
    IN  IF IsOk(c)
        THEN [outcome |-> "ok", key |-> "", self |-> self,
              heap |-> [h EXCEPT ![config] = SetItem(@, "fspl_constant_dB", c.value)]]
        ELSE [outcome |-> c.outcome, key |-> c.key, self |-> self, heap |-> h]

\* `config or {}`: config itself when it is a non-empty dict, a new empty dict
\* when it is None or empty.  Yields the heap and the reference.
OrEmptyDict(h, config) ==
    IF config = None \/ h[config] = EmptyDict
    THEN [heap |-> Alloc(h, EmptyDict), ref |-> NewAddr(h)]
    ELSE [heap |-> h, ref |-> config]

\* super().__init__(id_, merge_dicts(dict(defaults), config or {}))
SubclassInit(h, class, defaults, id_, config) ==
    LET copy == NewAddr(h)                       \* dict(defaults)
        h1 == Alloc(h, h[defaults])
        o == OrEmptyDict(h1, config)             \* config or {}
        merged == NewAddr(o.heap)                \* merge_dicts(...)
        h2 == Alloc(o.heap, merge_dicts(o.heap[copy], o.heap[o.ref]))
    IN  Device__init__(h2, class, id_, merged)

\* Variant: without overrides the default table itself becomes the config,
\* super().__init__(id_, merge_dicts(...) if config else DEFAULT_BASE_STATION_CONFIG)
BaseStation__init__SharedDefaults(h, id_, config) ==
    IF config = None \/ h[config] = EmptyDict
    THEN Device__init__(h, "BaseStation", id_, AddrBaseStationDefaults)
    ELSE SubclassInit(h, "BaseStation", AddrBaseStationDefaults, id_, config)

\* Variant: the defaults are filled into the caller's mapping, which becomes
\* the config: for k, v in DEFAULT_BASE_STATION_CONFIG.items(): config.setdefault(k, v)
BaseStation__init__InPlace(h, id_, config) ==
    IF config = None
    THEN SubclassInit(h, "BaseStation", AddrBaseStationDefaults, id_, config)
    ELSE Device__init__(
             [h EXCEPT ![config] = merge_dicts(h[AddrBaseStationDefaults], @)],
             "BaseStation", id_, config)

BaseStation__init__(h, id_, config) ==
    SubclassInit(h, "BaseStation", AddrBaseStationDefaults, id_, config)

\* Variant: the arguments of the merge are swapped, so the defaults win,
\* merge_dicts(config or {}, DEFAULT_UE_CONFIG)
UserEquipment__init__DefaultsWin(h, id_, config) ==
    LET o == OrEmptyDict(h, config)
        merged == NewAddr(o.heap)
        h2 == Alloc(o.heap, merge_dicts(o.heap[o.ref], o.heap[AddrUEDefaults]))
    IN  Device__init__(h2, "UserEquipment", id_, merged)

UserEquipment__init__(h, id_, config) ==
    SubclassInit(h, "UserEquipment", AddrUEDefaults, id_, config)

\* Objects no reference reaches are freed when the call returns: the heap h
\* restricted to the module tables, the caller's mappings and the
\* configurations of the devices devs.
Collect(h, devs) ==
    LET live == DefaultAddrs \cup CallerAddrs \cup {devs[i].config : i \in DOMAIN devs}
    IN  [a \in DOMAIN h \cap live |-> h[a]]

(***************************************************************************)
(* State machine.  heap: the dicts; devices: the constructed devices in    *)
(* construction order; ret: what the last call was and what it gave back.  *)
(***************************************************************************)
Return(op, dev, id_, config, d, tx_gain, r) ==
    [op |-> op, dev |-> dev, id |-> id_, config |-> config, d |-> d,
     tx_gain |-> tx_gain, outcome |-> r.outcome, value |-> r.value, key |-> r.key]

Init ==
    /\ heap = (AddrDeviceDefaults :> DEFAULT_DEVICE_CONFIG) @@
              (AddrBaseStationDefaults :> DEFAULT_BASE_STATION_CONFIG) @@
              (AddrUEDefaults :> DEFAULT_UE_CONFIG) @@
              [a \in CallerAddrs |-> CallerMappingAt(a)]
    /\ devices = <<>>
    /\ ret = Return("import", 0, "", None, Dbl(0), 0, Ok(0))

\* The caller's view of a construction that went through c == X__init__(...):
\* on success the new device is kept, on an exception nothing is.
Constructed(op, id_, config, c) ==
    /\ devices' = IF c.outcome = "ok" THEN Append(devices, c.self) ELSE devices
    /\ heap' = Collect(c.heap, devices')
    /\ ret' = Return(op, IF c.outcome = "ok" THEN Len(devices') ELSE 0, id_, config,
                     Dbl(0), 0, [outcome |-> c.outcome, value |-> 0, key |-> c.key])

\* BaseStation(id_, config)
NewBaseStation(id_, config) ==
    /\ Len(devices) < MaxDevices
    /\ Constructed("BaseStation", id_, config, BaseStation__init__(heap, id_, config))

\* UserEquipment(id_, config)
NewUserEquipment(id_, config) ==
    /\ Len(devices) < MaxDevices
    /\ Constructed("UserEquipment", id_, config, UserEquipment__init__(heap, id_, config))

\* Device(id_, config), directly
NewDevice(id_, config) ==
    /\ Len(devices) < MaxDevices
    /\ Constructed("Device", id_, config, Device__init__(heap, "Device", id_, config))

\* Variant: rx_noise_floor_dBm caches what it computed in the config.
ReadPropertyCaching(i, p) ==
    /\ p \in PropertiesOf(devices[i].class)
    /\ LET r == Property(heap, devices[i], p)
       IN  /\ ret' = Return(p, i, "", None, Dbl(0), 0, r)
           /\ heap' = IF p = "rx_noise_floor_dBm" /\ IsOk(r)
                      THEN [heap EXCEPT ![devices[i].config] = SetItem(@, p, r.value)]
                      ELSE heap
    /\ UNCHANGED devices

\* devices[i].<p>, for a property p of the device's class
ReadProperty(i, p) ==
    /\ p \in PropertiesOf(devices[i].class)
    /\ ret' = Return(p, i, "", None, Dbl(0), 0, Property(heap, devices[i], p))
    /\ UNCHANGED <<heap, devices>>

\* devices[i].free_space_path_loss_dB(d, tx_gain)
CallFreeSpacePathLoss(i, d, tx_gain) ==
    /\ ret' = Return("free_space_path_loss_dB", i, "", None, d, tx_gain,
                     free_space_path_loss_dB(heap, devices[i], d, tx_gain))
    /\ UNCHANGED <<heap, devices>>

AllProperties == PropertiesOf("BaseStation") \cup PropertiesOf("UserEquipment")

Next ==
    \/ \E id_ \in BaseStationIds, config \in Overrides : NewBaseStation(id_, config)
    \/ \E id_ \in UserEquipmentIds, config \in Overrides : NewUserEquipment(id_, config)
    \/ \E i \in DOMAIN devices, p \in AllProperties : ReadProperty(i, p)
    \/ \E i \in DOMAIN devices, d \in Distances, g \in TxGains :
          CallFreeSpacePathLoss(i, d, g)

Spec == Init /\ [][Next]_vars

\* The same, with Device itself constructed over a caller's mapping.
ConstructRaw == \E id_ \in DeviceIds, config \in RawConfigs : NewDevice(id_, config)

NextRaw == Next \/ ConstructRaw

SpecRaw == Init /\ [][NextRaw]_vars

(***************************************************************************)
(* Properties.                                                             *)
(***************************************************************************)
\* The configuration of device i.
Cfg(i) == heap[devices[i].config]

\* The last call was a successful BaseStation(...) or UserEquipment(...).
SubclassBuilt == ret.op \in {"BaseStation", "UserEquipment"} /\ ret.outcome = "ok"

\* What the override of the last construction held when the caller made it
\* (None counts as the empty mapping).
OverrideOfRet == IF ret.config = None THEN EmptyDict ELSE CallerMappingAt(ret.config)

\* The default table of a class, as written in the source.
DefaultsOf(class) ==
    IF class = "BaseStation" THEN DEFAULT_BASE_STATION_CONFIG ELSE DEFAULT_UE_CONFIG

\* The last call was a query on a device.
Queried == ret.dev \in DOMAIN devices /\ ret.op \notin {"BaseStation", "UserEquipment", "Device"}

\* C1: after any sequence of BaseStation / UserEquipment constructions the
\* three module-wide default tables hold exactly their initial keys and
\* values (none gained 'fspl_constant_dB') and every caller's override
\* mapping holds exactly what it held before the calls.
C1_MergeInputsUnchanged ==
    /\ heap[AddrDeviceDefaults] = DEFAULT_DEVICE_CONFIG
    /\ heap[AddrBaseStationDefaults] = DEFAULT_BASE_STATION_CONFIG
    /\ heap[AddrUEDefaults] = DEFAULT_UE_CONFIG
    /\ \A a \in DefaultAddrs : "fspl_constant_dB" \notin DOMAIN heap[a]
    /\ \A a \in CallerAddrs : heap[a] = CallerMappingAt(a)

\* Two devices exist, one with exactly the default keys and one built from an
\* override that adds a key, and the last construction used that override.
C1_Witness ==
    /\ Len(devices) = 2
    /\ \E i \in DOMAIN devices : DOMAIN Cfg(i) = DOMAIN DEFAULT_BASE_STATION_CONFIG \cup {"fspl_constant_dB"}
    /\ \E i \in DOMAIN devices : "extra_key" \in DOMAIN Cfg(i)
    /\ SubclassBuilt
    /\ ret.config # None /\ "extra_key" \in DOMAIN OverrideOfRet

\* C2: the configuration of a newly constructed BaseStation / UserEquipment
\* is the key-union of the class's default table and the override, the
\* override winning: apart from 'fspl_constant_dB' it has exactly the keys of
\* defaults and override, each with the override's value if the override
\* defines it and the default value otherwise (None behaves as the empty
\* mapping).
C2_KeyUnionOverrideWins ==
    SubclassBuilt =>
        LET dflt == DefaultsOf(ret.op)
            ov == OverrideOfRet
            keys == (DOMAIN dflt \cup DOMAIN ov) \ {"fspl_constant_dB"}
        IN  /\ DOMAIN Cfg(ret.dev) \ {"fspl_constant_dB"} = keys
            /\ \A k \in keys :
                  Cfg(ret.dev)[k] = IF k \in DOMAIN ov THEN ov[k] ELSE dflt[k]

\* A user equipment was just built from an override that replaces a default
\* (carrier_freq_GHz) and leaves the others alone.
C2_Witness ==
    /\ SubclassBuilt /\ ret.op = "UserEquipment"
    /\ ret.config # None
    /\ "carrier_freq_GHz" \in DOMAIN OverrideOfRet
    /\ Cfg(ret.dev)["carrier_freq_GHz"] = 5 * U
    /\ Cfg(ret.dev)["body_loss_dB"] = 3 * U

\* C3: in every state every device's fspl_constant_dB is
\* calc_fspl_constant_dB of the device's own carrier_freq_GHz, which for the
\* device just constructed is the override's carrier_freq_GHz when the
\* override defines it and 2.1 otherwise; a query of fspl_constant_dB
\* returns that stored value.
C3_ConstantFromMergedCarrier ==
    /\ \A i \in DOMAIN devices :
          /\ IsOk(carrier_freq_GHz(heap, devices[i]))
          /\ IsOk(fspl_constant_dB(heap, devices[i]))
          /\ fspl_constant_dB(heap, devices[i]).value =
                calc_fspl_constant_dB(carrier_freq_GHz(heap, devices[i]).value).value
    /\ SubclassBuilt =>
          carrier_freq_GHz(heap, devices[ret.dev]).value =
              IF "carrier_freq_GHz" \in DOMAIN OverrideOfRet
              THEN OverrideOfRet["carrier_freq_GHz"] ELSE 21 * T
    /\ (Queried /\ ret.op = "fspl_constant_dB") =>
          /\ ret.outcome = "ok"
          /\ ret.value = calc_fspl_constant_dB(Cfg(ret.dev)["carrier_freq_GHz"]).value

\* A device with an overridden carrier (5.0 GHz) exists beside one with the
\* default carrier, and the constant of the former was just read.
C3_Witness ==
    /\ Queried /\ ret.op = "fspl_constant_dB"
    /\ Cfg(ret.dev)["carrier_freq_GHz"] = 5 * U
    /\ \E j \in DOMAIN devices : Cfg(j)["carrier_freq_GHz"] = 21 * T

\* C4: each device's configuration is a mapping of its own: it is neither a
\* default table, nor a caller's mapping, nor another device's
\* configuration.
C4_NoSharedConfig ==
    \A i \in DOMAIN devices :
        /\ devices[i].config \notin DefaultAddrs
        /\ devices[i].config \notin CallerAddrs
        /\ \A j \in DOMAIN devices : i # j => devices[i].config # devices[j].config

\* Two base stations built from the same override mapping object (the only
\* one that sets max_tx_power_dBm to 40.0).
C4_Witness ==
    /\ Len(devices) = 2
    /\ \A i \in DOMAIN devices :
          devices[i].class = "BaseStation" /\ Cfg(i)["max_tx_power_dBm"] = 40 * U

\* C5: no operation mutates a constructed device: in every step each
\* existing device keeps its identifier, class, config reference and every
\* key and value of its configuration; a query step changes neither the heap
\* nor the devices, and asking the same query again in the resulting state
\* gives the same result.
C5_NoMutationAfterConstruction ==
    [][ /\ \A i \in DOMAIN devices :
              /\ i \in DOMAIN devices'
              /\ devices'[i] = devices[i]
              /\ heap'[devices'[i].config] = heap[devices[i].config]
        /\ ret'.op \notin {"BaseStation", "UserEquipment", "Device"} =>
              /\ heap' = heap
              /\ devices' = devices
              /\ ret'.op = "free_space_path_loss_dB" =>
                    LET r == free_space_path_loss_dB(heap', devices'[ret'.dev],
                                                     ret'.d, ret'.tx_gain)
                    IN  r.outcome = ret'.outcome /\ r.value = ret'.value
              /\ ret'.op \in AllProperties =>
                    LET r == Property(heap', devices'[ret'.dev], ret'.op)
                    IN  r.outcome = ret'.outcome /\ r.value = ret'.value
      ]_vars

\* Two devices exist and the noise floor of one of them was just read.
C5_Witness ==
    /\ Len(devices) = 2
    /\ Queried /\ ret.op = "rx_noise_floor_dBm" /\ ret.outcome = "ok"

\* C6: free_space_path_loss_dB(d, tx_gain) with d = 0 or d < 0 raises the
\* domain error (ValueError) and returns no value, and the call changes
\* neither the device nor any configuration.
C6_NonPositiveDistanceRaises ==
    [][ (ret'.op = "free_space_path_loss_dB" /\ ~IsPositive(ret'.d)) =>
            /\ ret'.outcome = "ValueError"
            /\ heap' = heap
            /\ devices' = devices
      ]_vars

\* free_space_path_loss_dB was just called with a distance of zero.
C6_Witness ==
    /\ Queried /\ ret.op = "free_space_path_loss_dB"
    /\ ret.d = Dbl(0)
    /\ ret.outcome = "ValueError"

\* The configuration keys a query reads, in the order it reads them.
ReadKeys(op) ==
    CASE op = "rx_noise_floor_dBm" -> <<"noise_figure_dB", "thermal_noise_dBm">>
      [] op = "free_space_path_loss_dB" -> <<"fspl_constant_dB", "rx_antenna_gain_dBi">>
      [] OTHER -> <<op>>

\* The first of keys that cfg lacks, "" if it has them all.
FirstMissing(cfg, keys) ==
    LET miss == {n \in DOMAIN keys : keys[n] \notin DOMAIN cfg}
    IN  IF miss = {} THEN ""
        ELSE keys[CHOOSE n \in miss : \A m \in miss : n <= m]

\* C7: a query whose device configuration lacks a field the query reads
\* never returns a value: it raises KeyError for the first missing field it
\* reaches (free_space_path_loss_dB evaluates log10(d) first, so for d <= 0
\* the domain error is raised before any field is read); KeyError is raised
\* only for a field that is indeed missing; Device(id_, config) raises
\* KeyError for 'carrier_freq_GHz', and constructs nothing, exactly when
\* config lacks it; and neither the construction of a BaseStation or
\* UserEquipment nor any query on one raises KeyError.
C7_MissingKeyFailsFast ==
    /\ Queried =>
          LET fm == FirstMissing(Cfg(ret.dev), ReadKeys(ret.op))
          IN  /\ fm # "" =>
                    /\ ret.outcome # "ok"
                    /\ \/ ret.op = "free_space_path_loss_dB" /\ ~IsPositive(ret.d)
                       \/ ret.outcome = "KeyError" /\ ret.key = fm
              /\ ret.outcome = "KeyError" => (fm # "" /\ ret.key = fm)
              /\ devices[ret.dev].class \in {"BaseStation", "UserEquipment"} =>
                    ret.outcome # "KeyError"
    /\ ret.op = "Device" =>
          ("carrier_freq_GHz" \notin DOMAIN heap[ret.config]
             <=> (ret.outcome = "KeyError" /\ ret.key = "carrier_freq_GHz" /\ ret.dev = 0))
    /\ ret.op \in {"BaseStation", "UserEquipment"} => ret.outcome # "KeyError"

\* The noise floor was just read on a device whose configuration has a noise
\* figure but no thermal noise: the read raised KeyError for the latter.
C7_Witness ==
    /\ Queried /\ ret.op = "rx_noise_floor_dBm"
    /\ "noise_figure_dB" \in DOMAIN Cfg(ret.dev)
    /\ ret.outcome = "KeyError" /\ ret.key = "thermal_noise_dBm"

\* C8: a BaseStation built without overrides has max_tx_power_dBm 46.0 and
\* rx_noise_floor_dBm -116.4, a UserEquipment built without overrides 23.0
\* and -97.5; and every read of rx_noise_floor_dBm returns the device's
\* current noise_figure_dB plus its current thermal_noise_dBm.
C8_DefaultFidelityAndNoiseFloor ==
    /\ (SubclassBuilt /\ OverrideOfRet = EmptyDict /\ ret.op = "BaseStation") =>
          /\ max_tx_power_dBm(heap, devices[ret.dev]) = Ok(46 * U)
          /\ rx_noise_floor_dBm(heap, devices[ret.dev]) = Ok(-1164 * T)
    /\ (SubclassBuilt /\ OverrideOfRet = EmptyDict /\ ret.op = "UserEquipment") =>
          /\ max_tx_power_dBm(heap, devices[ret.dev]) = Ok(23 * U)
          /\ rx_noise_floor_dBm(heap, devices[ret.dev]) = Ok(-975 * T)
    /\ (Queried /\ ret.op = "rx_noise_floor_dBm") =>
          /\ ret.outcome = "ok"
          /\ ret.value = Cfg(ret.dev)["noise_figure_dB"] + Cfg(ret.dev)["thermal_noise_dBm"]

\* A default base station exists, and the noise floor of a device with an
\* overridden noise figure (5.0) was just read.
C8_Witness ==
    /\ \E i \in DOMAIN devices :
          /\ devices[i].class = "BaseStation"
          /\ rx_noise_floor_dBm(heap, devices[i]) = Ok(-1164 * T)
    /\ Queried /\ ret.op = "rx_noise_floor_dBm"
    /\ Cfg(ret.dev)["noise_figure_dB"] = 5 * U

\* Configurations c1 and c2 agree on every field but rx_antenna_gain_dBi.
DifferOnlyInRxGain(c1, c2) ==
    /\ DOMAIN c1 = DOMAIN c2
    /\ \A k \in DOMAIN c1 \ {"rx_antenna_gain_dBi"} : c1[k] = c2[k]
    /\ c1["rx_antenna_gain_dBi"] # c2["rx_antenna_gain_dBi"]

\* C9 as stated: a returned free_space_path_loss_dB(d, tx_gain) equals
\* 20*log10(d) + fspl_constant_dB - tx_gain - rx_antenna_gain_dBi of the
\* device; the same device gives strictly more at every larger distance and
\* strictly less at every larger tx_gain; and a device that differs only by
\* a larger rx_antenna_gain_dBi gives strictly less for the same arguments.
C9_StrictlyMonotone ==
    (Queried /\ ret.op = "free_space_path_loss_dB" /\ ret.outcome = "ok") =>
        /\ ret.value = 20 * log10(ret.d).value + Cfg(ret.dev)["fspl_constant_dB"]
                         - ret.tx_gain - Cfg(ret.dev)["rx_antenna_gain_dBi"]
        /\ \A d2 \in Distances : Less(ret.d, d2) =>
              free_space_path_loss_dB(heap, devices[ret.dev], d2, ret.tx_gain).value > ret.value
        /\ \A g2 \in TxGains : g2 > ret.tx_gain =>
              free_space_path_loss_dB(heap, devices[ret.dev], ret.d, g2).value < ret.value
        /\ \A j \in DOMAIN devices :
              (/\ DifferOnlyInRxGain(Cfg(j), Cfg(ret.dev))
               /\ Cfg(j)["rx_antenna_gain_dBi"] > Cfg(ret.dev)["rx_antenna_gain_dBi"]) =>
              free_space_path_loss_dB(heap, devices[j], ret.d, ret.tx_gain).value < ret.value

\* C9, amended: a returned free_space_path_loss_dB(d, tx_gain) equals
\* 20*log10(d) + fspl_constant_dB - tx_gain - rx_antenna_gain_dBi of the
\* device; the same device gives no less at every larger distance and no
\* more at every larger tx_gain, and a device that differs only by a larger
\* rx_antenna_gain_dBi gives no more for the same arguments.  The order is
\* strict between the distances 1, 10 and 1000 m, between the transmit
\* gains 0 and 17.5 dB and between the receive gains drawn (0, 17.5 and
\* 20 dBi); it is an equality between 1000.0 m and the double that follows
\* it.
C9_PathLossFormulaAndMonotone ==
    (Queried /\ ret.op = "free_space_path_loss_dB" /\ ret.outcome = "ok") =>
        /\ ret.value = 20 * log10(ret.d).value + Cfg(ret.dev)["fspl_constant_dB"]
                         - ret.tx_gain - Cfg(ret.dev)["rx_antenna_gain_dBi"]
        /\ \A d2 \in Distances : Less(ret.d, d2) =>
              LET v == free_space_path_loss_dB(heap, devices[ret.dev], d2, ret.tx_gain).value
              IN  /\ v >= ret.value
                  /\ d2[1] > ret.d[1] => v > ret.value
                  /\ d2[1] = ret.d[1] => v = ret.value
        /\ \A g2 \in TxGains : g2 > ret.tx_gain =>
              free_space_path_loss_dB(heap, devices[ret.dev], ret.d, g2).value < ret.value
        /\ \A j \in DOMAIN devices :
              (/\ DifferOnlyInRxGain(Cfg(j), Cfg(ret.dev))
               /\ Cfg(j)["rx_antenna_gain_dBi"] > Cfg(ret.dev)["rx_antenna_gain_dBi"]) =>
              free_space_path_loss_dB(heap, devices[j], ret.d, ret.tx_gain).value < ret.value

\* The path loss at 1000.0 m, which the next double ties and the smaller
\* distances stay below, was just computed on a device beside which another
\* device differs only by a larger receive gain.
C9_Witness ==
    /\ Queried /\ ret.op = "free_space_path_loss_dB" /\ ret.outcome = "ok"
    /\ ret.d = Dbl(1000 * U) /\ ret.tx_gain = 0
    /\ free_space_path_loss_dB(heap, devices[ret.dev], <<1000 * U, 1>>, 0).value = ret.value
    /\ \E j \in DOMAIN devices :
          /\ DifferOnlyInRxGain(Cfg(j), Cfg(ret.dev))
          /\ Cfg(j)["rx_antenna_gain_dBi"] > Cfg(ret.dev)["rx_antenna_gain_dBi"]

\* C10: when the override of a construction holds the key
\* 'fspl_constant_dB', the constructed device's fspl_constant_dB is the value
\* derived from its merged carrier_freq_GHz, not the caller's, and the
\* caller's mapping still holds its own value for that key.
C10_DerivedFieldNotInjectable ==
    (SubclassBuilt /\ "fspl_constant_dB" \in DOMAIN OverrideOfRet) =>
        /\ fspl_constant_dB(heap, devices[ret.dev]) =
              calc_fspl_constant_dB(Cfg(ret.dev)["carrier_freq_GHz"])
        /\ heap[ret.config]["fspl_constant_dB"] = OverrideOfRet["fspl_constant_dB"]
        /\ heap[ret.config] = OverrideOfRet

\* A base station was just built from the override that carries
\* 'fspl_constant_dB': 99.0, a value no carrier frequency derives.
C10_Witness ==
    /\ SubclassBuilt /\ ret.op = "BaseStation"
    /\ ret.config # None
    /\ "fspl_constant_dB" \in DOMAIN OverrideOfRet
    /\ OverrideOfRet["fspl_constant_dB"] = 99 * U
    /\ fspl_constant_dB(heap, devices[ret.dev]).value # 99 * U

====
